---- MODULE Spec2Model ----
(***************************************************************************)
(* Word wrapper (format / force_width) and scrollback view (WrappedView)   *)
(* of src/ui/term/text.rs, the damage-tracked grid (DamageBuffer) of       *)
(* src/termui.rs and the line editor (InputLine) of src/ui/term/input.rs.  *)
(*                                                                         *)
(* A Rust String is modelled as a sequence of chars, each char a           *)
(* one-character string.  Byte lengths and byte offsets are kept apart     *)
(* from char counts, because force_width and the slicing in format work on *)
(* bytes while the wrapping arithmetic counts chars.                       *)
(***************************************************************************)
EXTENDS Integers, Sequences, FiniteSets, TLC

VARIABLES
    overflow_checks,  \* build profile: TRUE = arithmetic overflow panics (debug),
                      \* FALSE = it wraps (release)
    f_pc, f_text, f_opts, f_k, f_loc, f_ret,   \* one call of format()
    v_pc, h, fmt, history, cache, position,    \* one WrappedView
    d_pc, d_w, d_h, buffer, points_to_draw,    \* one DamageBuffer, the method
    redraw_all, clear_all, d_op, d_out,        \* called last and what it printed,
    d_resized,                                 \* whether resize was called since
                                               \* the last redraw
    i_pc, i_buffer, cursor                     \* one InputLine

fvars == <<f_pc, f_text, f_opts, f_k, f_loc, f_ret>>
vvars == <<v_pc, h, fmt, history, cache, position>>
dvars ==
    <<d_pc, d_w, d_h, buffer, points_to_draw, redraw_all, clear_all, d_op, d_out,
      d_resized>>
ivars == <<i_pc, i_buffer, cursor>>
vars == <<overflow_checks, fvars, vvars, dvars, ivars>>

\* no DamageBuffer and no InputLine has been constructed
DamageIdle ==
    /\ d_pc = "idle"
    /\ d_w = 0
    /\ d_h = 0
    /\ buffer = <<>>
    /\ points_to_draw = {}
    /\ redraw_all = FALSE
    /\ clear_all = FALSE
    /\ d_op = "none"
    /\ d_out = <<>>
    /\ d_resized = FALSE

InputIdle ==
    /\ i_pc = "idle"
    /\ i_buffer = <<>>
    /\ cursor = 0

----------------------------------------------------------------------------
(* Bounds of the model *)

MaxLen == 4        \* longest generated input line of format()
MaxW == 5          \* widest FmtOpts.w given to format()
MaxIndent == 2     \* largest indent magnitude given to format()
MaxHist == 3       \* most lines pushed to one view

----------------------------------------------------------------------------
(* Strings *)

\* chars whose UTF-8 encoding takes two bytes
TwoByteChars == {"é"}

\* char::is_whitespace, on the chars the model uses
IsWhitespace(c) == c \in {" ", "\n", "\r", "\t"}

\* char::len_utf8
Utf8Len(c) == IF c \in TwoByteChars THEN 2 ELSE 1

\* String::len: the length in bytes
RECURSIVE ByteLen(_)
ByteLen(s) == IF s = <<>> THEN 0 ELSE Utf8Len(Head(s)) + ByteLen(Tail(s))

\* byte offset of the k-th char (k from 1), as char_indices() reports it
ByteOffset(s, k) == ByteLen(SubSeq(s, 1, k - 1))

\* " ".repeat(n)
Spaces(n) == [j \in 1..n |-> " "]

\* &text[from..to] on byte offsets; the slice is valid when both offsets are
\* char boundaries and from <= to <= len
CharBoundary(s, off) == \E k \in 1..(Len(s) + 1) : ByteOffset(s, k) = off
SliceOk(s, from, to) == from <= to /\ CharBoundary(s, from) /\ CharBoundary(s, to)
Slice(s, from, to) ==
    LET I == {k \in 1..Len(s) : from <= ByteOffset(s, k) /\ ByteOffset(s, k) < to}
    IN  IF I = {} THEN <<>>
        ELSE SubSeq(s, CHOOSE k \in I : \A j \in I : k <= j,
                       CHOOSE k \in I : \A j \in I : j <= k)

\* str::trim_start
RECURSIVE TrimStart(_)
TrimStart(s) ==
    IF s # <<>> /\ IsWhitespace(Head(s)) THEN TrimStart(Tail(s)) ELSE s

\* force_width: pop chars while the byte length exceeds width, then push
\* spaces while it is below width
RECURSIVE PopWhileLonger(_, _)
PopWhileLonger(text, width) ==
    IF ByteLen(text) > width
    THEN PopWhileLonger(SubSeq(text, 1, Len(text) - 1), width)
    ELSE text

RECURSIVE PushWhileShorter(_, _)
PushWhileShorter(text, width) ==
    IF ByteLen(text) < width
    THEN PushWhileShorter(Append(text, " "), width)
    ELSE text

force_width(text, width) == PushWhileShorter(PopWhileLonger(text, width), width)

----------------------------------------------------------------------------
(* format *)

FmtOpts(w, i) == [w |-> w, i |-> i]
\* the texts of a Vec<ScreenLine>
Texts_(lines) == [j \in 1..Len(lines) |-> lines[j].text]
ScreenLine(text, opts) == [text |-> text, for_opts |-> opts]

\* usize arithmetic: a - b panics under overflow checks when b > a and wraps
\* otherwise.  The modulus stands for 2^64, scaled to the integers TLC has;
\* every length of the model is far below it.
UsizeModulus == 1073741824
UsizeSub(a, b, checks) ==
    [panic |-> (a < b) /\ checks,
     val   |-> IF a >= b THEN a - b ELSE a - b + UsizeModulus]

IndentFirst(opts) == IF opts.i < 0 THEN Spaces(-opts.i) ELSE <<>>
IndentRest(opts) == IF opts.i < 0 THEN <<>> ELSE Spaces(opts.i)

IndentWidthFirstLine(opts, checks) ==
    IF opts.i < 0 THEN UsizeSub(opts.w, -opts.i, checks)
    ELSE [panic |-> FALSE, val |-> opts.w]

IndentWidthTextBody(opts, checks) ==
    IF opts.i < 0 THEN [panic |-> FALSE, val |-> opts.w]
    ELSE UsizeSub(opts.w, opts.i, checks)

\* the locals of format() at the start of the for loop
FormatLocals ==
    [result |-> <<>>,
     last_whitespace |-> 0, last_whitespace_idx |-> 0,
     last_breakpoint |-> 0, last_breakpoint_idx |-> 0,
     width_so_far |-> 0, panic |-> FALSE]

\* the lines that compute the indent widths abort the call when they overflow
FormatEntryPanics(opts, checks) ==
    IndentWidthFirstLine(opts, checks).panic \/ IndentWidthTextBody(opts, checks).panic

\* a wrapper that never looks for a whitespace break point
BreakAtNone(loc) == FALSE

\* whether the while loop breaks at the last whitespace (or else mid-token)
BreakAtWhitespace(loc) == loc.last_whitespace > loc.last_breakpoint

\* the indent prefix of the line being built
LinePrefix(loc, opts) ==
    IF loc.last_breakpoint = 0 THEN IndentFirst(opts) ELSE IndentRest(opts)

\* the while loop of one for-loop iteration; target_width is fixed by the
\* caller, before the loop
RECURSIVE WhileTooWide(_, _, _, _, _)
WhileTooWide(text, opts, loc, idx, target_width) ==
    IF loc.panic \/ ~(loc.width_so_far - loc.last_breakpoint > target_width)
    THEN loc
    ELSE LET at_ws == BreakAtWhitespace(loc)
             to == IF at_ws THEN loc.last_whitespace_idx ELSE idx
             line == LinePrefix(loc, opts)
                        \o TrimStart(Slice(text, loc.last_breakpoint_idx, to))
             next == [loc EXCEPT
                        !.last_breakpoint =
                            IF at_ws THEN loc.last_whitespace ELSE loc.width_so_far,
                        !.last_breakpoint_idx = to,
                        !.result = Append(@, ScreenLine(force_width(line, opts.w), opts)),
                        !.panic = ~SliceOk(text, loc.last_breakpoint_idx, to)]
         IN  WhileTooWide(text, opts, next, idx, target_width)

\* one iteration of the for loop, on the k-th char of text (k from 1)
ForBody(text, opts, checks, loc, k) ==
    LET character == text[k]
        idx == ByteOffset(text, k)
        counted == [loc EXCEPT !.width_so_far = @ + 1]
        seen == IF IsWhitespace(character)
                THEN [counted EXCEPT !.last_whitespace = counted.width_so_far,
                                     !.last_whitespace_idx = idx]
                ELSE counted
        target_width == IF seen.last_breakpoint = 0
                        THEN IndentWidthFirstLine(opts, checks).val
                        ELSE IndentWidthTextBody(opts, checks).val
    IN  WhileTooWide(text, opts, seen, idx, target_width)

\* the text of the ScreenLine pushed in the degenerate case: "".to_string()
BlankLine(opts) == <<>>

\* after the loop: the last chunk, then the degenerate blank line
FormatTail(text, opts, loc) ==
    LET last_chunk == TrimStart(Slice(text, loc.last_breakpoint_idx, ByteLen(text)))
        pushed == IF ByteLen(last_chunk) > 0
                  THEN Append(loc.result,
                              ScreenLine(force_width(LinePrefix(loc, opts) \o last_chunk,
                                                     opts.w), opts))
                  ELSE loc.result
    IN  IF Len(pushed) = 0 THEN <<ScreenLine(BlankLine(opts), opts)>> ELSE pushed

\* the locals after the first k iterations of the for loop (the locals before
\* the k-th iteration are bound as one value, computed once)
RECURSIVE ScanTo(_, _, _, _)
ScanTo(text, opts, checks, k) ==
    IF k = 0 THEN FormatLocals
    ELSE CHOOSE after \in
             {IF before.panic THEN before ELSE ForBody(text, opts, checks, before, k) :
                 before \in {ScanTo(text, opts, checks, k - 1)}} : TRUE

\* format(text, opts) under a build profile: the call panics, or returns lines
FormatIn(text, opts, checks) ==
    IF FormatEntryPanics(opts, checks) THEN [panic |-> TRUE, lines |-> <<>>]
    ELSE CHOOSE ret \in
             {IF loc.panic THEN [panic |-> TRUE, lines |-> <<>>]
              ELSE [panic |-> FALSE, lines |-> FormatTail(text, opts, loc)] :
                 loc \in {ScanTo(text, opts, checks, Len(text))}} : TRUE

----------------------------------------------------------------------------
(* One call of format(), stepped through its for loop *)

\* chars of the generated input lines: a letter, a space, a two-byte letter
FormatChars == {"a", " ", "é"}

Texts(n) == UNION {[1..m -> FormatChars] : m \in 0..n}

HelloWorldFoo ==
    <<"h", "e", "l", "l", "o", " ", "w", "o", "r", "l", "d", " ", "f", "o", "o">>
ThirteenLetters ==
    <<"a", "b", "c", "d", "e", "f", "g", "h", "i", "j", "k", "l", "m">>

\* the worked examples of the specification, with their own options
ExampleInputs ==
    {[text |-> HelloWorldFoo, opts |-> FmtOpts(5, 0)],
     [text |-> ThirteenLetters, opts |-> FmtOpts(5, 0)],
     [text |-> <<>>, opts |-> FmtOpts(10, 0)]}

FormatInputs ==
    {[text |-> t, opts |-> FmtOpts(w, i)] :
        t \in Texts(MaxLen), w \in 1..MaxW, i \in (-MaxIndent)..MaxIndent}
    \cup ExampleInputs

\* the view is not part of a format() run
ViewIdle ==
    /\ v_pc = "idle"
    /\ h = 0
    /\ fmt = FmtOpts(0, 0)
    /\ history = <<>>
    /\ cache = <<>>
    /\ position = <<0, 0>>

InitFormat ==
    /\ overflow_checks \in BOOLEAN
    /\ \E in \in FormatInputs : f_text = in.text /\ f_opts = in.opts
    /\ f_pc = "call"
    /\ f_k = 0
    /\ f_loc = FormatLocals
    /\ f_ret = <<>>
    /\ ViewIdle
    /\ DamageIdle
    /\ InputIdle

\* lines 35..78: the locals, the indent strings and the two target widths
FormatEnter ==
    /\ f_pc = "call"
    /\ f_pc' = IF FormatEntryPanics(f_opts, overflow_checks) THEN "panicked" ELSE "loop"
    /\ UNCHANGED <<overflow_checks, f_text, f_opts, f_k, f_loc, f_ret, vvars, dvars, ivars>>

\* lines 87..134: one iteration of the for loop
FormatStep ==
    /\ f_pc = "loop"
    /\ f_k < Len(f_text)
    /\ f_k' = f_k + 1
    /\ f_loc' = ForBody(f_text, f_opts, overflow_checks, f_loc, f_k + 1)
    /\ f_pc' = IF f_loc'.panic THEN "panicked" ELSE "loop"
    /\ UNCHANGED <<overflow_checks, f_text, f_opts, f_ret, vvars, dvars, ivars>>

\* lines 136..168: the last chunk, the degenerate case, the return
FormatReturn ==
    /\ f_pc = "loop"
    /\ f_k = Len(f_text)
    /\ f_ret' = FormatTail(f_text, f_opts, f_loc)
    /\ f_pc' = "done"
    /\ UNCHANGED <<overflow_checks, f_text, f_opts, f_k, f_loc, vvars, dvars, ivars>>

NextFormat == FormatEnter \/ FormatStep \/ FormatReturn

SpecFormat == InitFormat /\ [][NextFormat]_vars

\* the stepped run returns what the function returns
FormatRunAgrees ==
    /\ f_pc = "done" =>
           FormatIn(f_text, f_opts, overflow_checks) = [panic |-> FALSE, lines |-> f_ret]
    /\ f_pc = "panicked" => FormatIn(f_text, f_opts, overflow_checks).panic

----------------------------------------------------------------------------
(* WrappedView *)

\* WrappedView::new sets the indent of every view
ViewIndent == 4

\* widths given to new() and resize(): below the indent, and two above it
ViewWidths == {3, 5, 6}

\* heights given to new() and resize()
ViewHeights == {0, 1, 2}

\* raw lines given to push()
LineEmpty == <<>>
LineWithControls ==
    <<"a", "b", " ", "\r", "c", "d", " ", "e", "f", "g", "\n">>
PushLines == {LineEmpty, LineWithControls}

\* the format() run is not part of a view's life
FormatIdle ==
    /\ f_pc = "idle"
    /\ f_text = <<>>
    /\ f_opts = FmtOpts(0, 0)
    /\ f_k = 0
    /\ f_loc = FormatLocals
    /\ f_ret = <<>>

\* the fields of the view, as one value
View == [h |-> h, fmt |-> fmt, history |-> history, cache |-> cache,
         position |-> position]

\* WrappedView::new(w, h)
InitView ==
    /\ overflow_checks \in BOOLEAN
    /\ v_pc = "run"
    /\ h \in ViewHeights
    /\ \E w \in ViewWidths : fmt = FmtOpts(w, ViewIndent)
    /\ history = <<>>
    /\ cache = [k \in {} |-> <<>>]
    /\ position = <<0, 0>>
    /\ FormatIdle
    /\ DamageIdle
    /\ InputIdle

\* WrappedView::resize(w, h)
Resize(new_w, new_h) ==
    /\ v_pc = "run"
    /\ h' = new_h
    /\ fmt' = [fmt EXCEPT !.w = new_w]
    /\ UNCHANGED <<overflow_checks, v_pc, history, cache, position, fvars, dvars, ivars>>

\* a retain() that forgets the carriage return
RECURSIVE RetainKeepCR(_)
RetainKeepCR(line) ==
    IF line = <<>> THEN <<>>
    ELSE IF Head(line) # "\n"
         THEN <<Head(line)>> \o RetainKeepCR(Tail(line))
         ELSE RetainKeepCR(Tail(line))

\* line.retain(|c| c != '\n' && c != '\r')
RECURSIVE RetainLoop(_)
RetainLoop(line) ==
    IF line = <<>> THEN <<>>
    ELSE IF Head(line) # "\n" /\ Head(line) # "\r"
         THEN <<Head(line)>> \o RetainLoop(Tail(line))
         ELSE RetainLoop(Tail(line))

Retain(line) == RetainLoop(line)

\* a push that never follows the tail, and one that always jumps to it
PositionNeverFollows(pos, current_histlen) == pos

PositionAlwaysFollows(pos, current_histlen) == <<current_histlen, 0>>

\* a push that anchors one line past the new last line
PositionPastEnd(pos, current_histlen) ==
    IF current_histlen = 0 \/ pos[1] = current_histlen - 1
    THEN <<current_histlen + 1, 0>>
    ELSE pos

\* the scroll position after a push that found current_histlen lines

PositionAfterPush(pos, current_histlen) ==
    IF current_histlen = 0 \/ pos[1] = current_histlen - 1
    THEN <<(current_histlen + 1) - 1, 0>>
    ELSE pos

\* WrappedView::push(line)
Push(raw) ==
    /\ v_pc = "run"
    /\ Len(history) < MaxHist
    /\ history' = Append(history, Retain(raw))
    /\ position' = PositionAfterPush(position, Len(history))
    /\ UNCHANGED <<overflow_checks, v_pc, h, fmt, cache, fvars, dvars, ivars>>

\* format() is a pure function: what it returns for the lines a view can
\* store, under the options a view can have, is tabulated once
StoredLines == {Retain(raw) : raw \in PushLines}
FormatTable ==
    [text \in StoredLines, w \in ViewWidths, checks \in BOOLEAN |->
        FormatIn(text, FmtOpts(w, ViewIndent), checks)]

\* format(text, opts) as the view calls it, under the build profile in force:
\* text is a stored line, opts.w a view width and opts.i the view's indent
format(text, opts) == FormatTable[text, opts.w, overflow_checks]

\* an insert under the key after the one asked for
CacheInsertNextKey(c, line, new_lines) ==
    [k \in DOMAIN c \cup {line + 1} |-> IF k = line + 1 THEN new_lines ELSE c[k]]

\* cache.insert(line, new_lines)
CacheInsert(c, line, new_lines) ==
    [k \in DOMAIN c \cup {line} |-> IF k = line THEN new_lines ELSE c[k]]

\* a cache that trusts an entry whatever options it was wrapped under
CacheHitAnyOpts(v, c, line) == line \in DOMAIN c

\* whether the cache holds lines for this index, wrapped under the options in force
CacheHit(v, c, line) == line \in DOMAIN c /\ c[line][1].for_opts = v.fmt

\* WrappedView::wrap(line) on the view v whose cache is now c: None, a panic
\* of format(), or the lines and the cache after the call
Wrap(v, c, line) ==
    IF line >= Len(v.history)
    THEN [none |-> TRUE, panic |-> FALSE, lines |-> <<>>, cache |-> c]
    ELSE IF CacheHit(v, c, line)
    THEN [none |-> FALSE, panic |-> FALSE, lines |-> c[line], cache |-> c]
    ELSE CHOOSE ret \in
             {[none |-> FALSE, panic |-> new_lines.panic, lines |-> new_lines.lines,
               cache |-> IF new_lines.panic THEN c
                         ELSE CacheInsert(c, line, new_lines.lines)] :
                 new_lines \in {format(v.history[line + 1], v.fmt)}} : TRUE

\* an iterator adaptor that keeps the order
KeepOrder(s) == s

\* .rev()
Reverse(s) == [j \in 1..Len(s) |-> s[Len(s) + 1 - j]]

\* the lazy iterator chain of render(): history lines are wrapped from index
\* i downwards, each one's rows taken last row first, and no further line is
\* wrapped once lines_wanted rows are there
RECURSIVE RenderWalk(_, _, _, _)
RenderWalk(v, i, rows, c) ==
    IF Len(rows) >= v.h \/ i < 0
    THEN [panic |-> FALSE, rows |-> rows, cache |-> c]
    ELSE CHOOSE ret \in
             {IF r.none \/ r.panic
              THEN [panic |-> TRUE, rows |-> rows, cache |-> r.cache]
              ELSE RenderWalk(v, i - 1, rows \o Reverse(Texts_(r.lines)), r.cache) :
                 r \in {Wrap(v, c, i)}} : TRUE

\* .chain(repeat(" ".repeat(fmt.w))).take(lines_wanted)
TakeWithBlanks(rows, lines_wanted, w) ==
    [j \in 1..lines_wanted |-> IF j <= Len(rows) THEN rows[j] ELSE Spaces(w)]

\* WrappedView::render() on the view v: a panic, or the rows it returns (top
\* row first) and the cache it leaves
render(v) ==
    IF Len(v.history) > 0
    THEN CHOOSE ret \in
             {[panic |-> walk.panic,
               rows |-> Reverse(TakeWithBlanks(walk.rows, v.h, v.fmt.w)),
               cache |-> walk.cache] :
                 walk \in {RenderWalk(v, v.position[1], <<>>, v.cache)}} : TRUE
    ELSE [panic |-> FALSE,
          rows |-> [j \in 1..v.h |-> Spaces(v.fmt.w)],
          cache |-> v.cache]

\* a call of render(): it returns and leaves the cache, or the process aborts
Render ==
    /\ v_pc = "run"
    /\ \E r \in {render(View)} :
           IF r.panic
           THEN v_pc' = "aborted" /\ UNCHANGED cache
           ELSE v_pc' = v_pc /\ cache' = r.cache
    /\ UNCHANGED <<overflow_checks, h, fmt, history, position, fvars, dvars, ivars>>

Next ==
    \/ \E raw \in PushLines : Push(raw)
    \/ \E new_w \in ViewWidths, new_h \in ViewHeights : Resize(new_w, new_h)
    \/ Render

Spec == InitView /\ [][Next]_vars

\* a scroll command of the surrounding program: the anchor moves to any stored
\* line, with any count of discarded rows
ScrollTo(anchor, discard) ==
    /\ v_pc = "run"
    /\ anchor < Len(history)
    /\ position' = <<anchor, discard>>
    /\ UNCHANGED <<overflow_checks, v_pc, h, fmt, history, cache, fvars, dvars, ivars>>

NextScroll ==
    \/ Next
    \/ \E anchor \in 0..(MaxHist - 1), discard \in {0, 1} : ScrollTo(anchor, discard)

SpecScroll == InitView /\ [][NextScroll]_vars

----------------------------------------------------------------------------
(* Properties of format() *)

Min(a, b) == IF a <= b THEN a ELSE b
MaxOf(S) == CHOOSE x \in S : \A y \in S : y <= x
IndentMagnitude(opts) == IF opts.i < 0 THEN -opts.i ELSE opts.i
AllWhitespace(s) == \A j \in 1..Len(s) : IsWhitespace(s[j])
NoWhitespace(s) == \A j \in 1..Len(s) : ~IsWhitespace(s[j])
\* n chars of s from char a (from 1), padded with spaces to n chars
PaddedChunk(s, a, n) ==
    [j \in 1..n |-> IF a + j - 1 <= Len(s) THEN s[a + j - 1] ELSE " "]

\* C1: for every line and every width >= 1, wrap returns a non-empty sequence
\* whose every ScreenLine text is exactly width chars long.
C1_NonEmptyExactWidth ==
    f_pc = "done" =>
        /\ Len(f_ret) >= 1
        /\ \A j \in 1..Len(f_ret) : Len(f_ret[j].text) = f_opts.w

\* C2: an empty or all-whitespace line wraps to exactly one ScreenLine, made
\* of width spaces.
C2_BlankLineIsOnePaddedLine ==
    (f_pc = "done" /\ AllWhitespace(f_text)) =>
        /\ Len(f_ret) = 1
        /\ f_ret[1].text = Spaces(f_opts.w)

\* every word (maximal run of non-whitespace chars) of text fits the narrower
\* of the two target widths
ShortWords(text, opts, checks) ==
    \A a \in 1..Len(text) : \A b \in a..Len(text) :
        NoWhitespace(SubSeq(text, a, b)) =>
            b - a + 1 <= Min(IndentWidthFirstLine(opts, checks).val,
                             IndentWidthTextBody(opts, checks).val)

\* the part of the j-th returned line after its indent prefix
AfterPrefix(lines, opts, j) ==
    LET m == IF j = 1 THEN Len(IndentFirst(opts)) ELSE Len(IndentRest(opts))
    IN  SubSeq(lines[j].text, m + 1, Len(lines[j].text))

\* C4: wrap breaks preferentially at whitespace.  (a) The worked example:
\* "hello world foo" at width 5 is "hello", "world", "foo  ".  (b) When an
\* iteration commits a break and a whitespace char was seen since the last
\* break, the line it pushes ends before the last such whitespace.  (c) The
\* fragment after a break starts without the whitespace.  (d) In a line whose
\* words all fit the target width, every break lies on a whitespace char, so
\* no word is split across two ScreenLines.
C4_BreaksAtWhitespace ==
    /\ (f_pc = "done" /\ f_text = HelloWorldFoo /\ f_opts = FmtOpts(5, 0)) =>
           Texts_(f_ret) = << <<"h", "e", "l", "l", "o">>,
                              <<"w", "o", "r", "l", "d">>,
                              <<"f", "o", "o", " ", " ">> >>
    /\ (f_pc = "loop" /\ f_k < Len(f_text)) =>
           LET lb == f_loc.last_breakpoint
               after == ForBody(f_text, f_opts, overflow_checks, f_loc, f_k + 1)
               seen == {j \in (lb + 1)..(f_k + 1) : IsWhitespace(f_text[j])}
               n == Len(f_loc.result)
           IN  (Len(after.result) > n /\ seen # {}) =>
                   after.result[n + 1].text =
                       force_width(
                           LinePrefix(f_loc, f_opts)
                             \o TrimStart(SubSeq(f_text, IF lb = 0 THEN 1 ELSE lb,
                                                 MaxOf(seen) - 1)),
                           f_opts.w)
    /\ f_pc = "done" =>
           \A j \in 1..Len(f_ret) :
               LET rest == AfterPrefix(f_ret, f_opts, j)
               IN  rest = <<>> \/ AllWhitespace(rest) \/ ~IsWhitespace(rest[1])
    /\ (f_pc \in {"loop", "done"} /\ ShortWords(f_text, f_opts, overflow_checks)) =>
           \/ f_loc.last_breakpoint = 0
           \/ /\ f_loc.last_breakpoint \in 1..Len(f_text)
              /\ IsWhitespace(f_text[f_loc.last_breakpoint])
              /\ f_loc.last_breakpoint_idx = ByteOffset(f_text, f_loc.last_breakpoint)

\* a line of short words that was broken twice, each time at a whitespace
C4_Witness ==
    /\ f_pc = "done"
    /\ f_text # HelloWorldFoo
    /\ ShortWords(f_text, f_opts, overflow_checks)
    /\ Len(f_ret) >= 2
    /\ ~AllWhitespace(f_ret[1].text)
    /\ ~AllWhitespace(f_ret[2].text)
    /\ IsWhitespace(f_text[f_loc.last_breakpoint])

\* C5: with indent 0 a run of n non-whitespace chars longer than the width is
\* cut strictly by position into ceil(n / width) lines, the k-th holding chars
\* k*width .. (k+1)*width - 1 and the last one padded with spaces.
C5_LongRunCutByPosition ==
    (f_pc = "done" /\ f_opts.i = 0 /\ NoWhitespace(f_text) /\ Len(f_text) > f_opts.w) =>
        LET n == Len(f_text)
            w == f_opts.w
            count == (n + w - 1) \div w
        IN  /\ Len(f_ret) = count
            /\ \A k \in 0..(count - 1) :
                   f_ret[k + 1].text = PaddedChunk(f_text, k * w + 1, w)

\* C6: for indent magnitude m < width, a negative indent puts the m spaces on
\* the first ScreenLine only (later ones are unprefixed), a positive indent
\* puts them on every ScreenLine but the first; an indented line carries at
\* most width - m chars of the input, an unprefixed one up to width.
StartsWithSpaces(text, m) == Len(text) >= m /\ \A j \in 1..m : text[j] = " "
Unprefixed(text) == text = <<>> \/ AllWhitespace(text) \/ ~IsWhitespace(text[1])
C6_IndentRules ==
    (f_pc = "done" /\ IndentMagnitude(f_opts) < f_opts.w) =>
        LET m == IndentMagnitude(f_opts)
            w == f_opts.w
        IN  /\ f_opts.i < 0 =>
                /\ StartsWithSpaces(f_ret[1].text, m)
                /\ Len(f_ret[1].text) <= w
                /\ \A j \in 2..Len(f_ret) :
                       Unprefixed(f_ret[j].text) /\ Len(f_ret[j].text) <= w
            /\ f_opts.i > 0 =>
                /\ Unprefixed(f_ret[1].text)
                /\ Len(f_ret[1].text) <= w
                /\ \A j \in 2..Len(f_ret) :
                       StartsWithSpaces(f_ret[j].text, m) /\ Len(f_ret[j].text) <= w

----------------------------------------------------------------------------
(* Properties of WrappedView *)

\* the raw line without its '\n' and '\r' chars
WithoutNewlines(raw) == SelectSeq(raw, LAMBDA c : c \notin {"\n", "\r"})

\* the anchor of the scroll position is the last stored line
AtTail == position[1] = Len(history) - 1

\* C3: render() returns exactly height strings, each exactly width chars
\* long, in every state reachable by new, push, resize and render.
C3_RenderIsHeightByWidth ==
    (v_pc = "run" /\ ~render(View).panic) =>
        /\ Len(render(View).rows) = h
        /\ \A j \in 1..h : Len(render(View).rows[j]) = fmt.w

\* C7: auto-follow.  A push that finds the history empty or the view anchored
\* at the last line leaves the position at (index of the new last line, 0),
\* and for height >= 1 the bottom row render() then returns is the last
\* ScreenLine of the pushed logical line wrapped under the current options.
C7_AutoFollow ==
    [][\A raw \in PushLines :
          (Push(raw) /\ (Len(history) = 0 \/ AtTail)) =>
              /\ position' = <<Len(history), 0>>
              /\ (h' >= 1 /\ ~render(View').panic) =>
                    LET wrapped == FormatIn(WithoutNewlines(raw), fmt', overflow_checks).lines
                    IN  render(View').rows[h'] = wrapped[Len(wrapped)].text]_vars

\* the view follows a pushed line that wraps to several rows
C7_Witness ==
    /\ v_pc = "run"
    /\ h >= 1
    /\ Len(history) >= 2
    /\ position = <<Len(history) - 1, 0>>
    /\ ~render(View).panic
    /\ Len(format(history[Len(history)], fmt).lines) >= 2
    /\ render(View).rows[h] # Spaces(fmt.w)

\* C8: a scrolled-back view stays put.  A push that finds the history
\* non-empty and the anchor not on the last line leaves the position
\* unchanged, and render() returns the same rows after it as before it.
C8_ScrolledBackStaysPut ==
    [][\A raw \in PushLines :
          (Push(raw) /\ Len(history) > 0 /\ ~AtTail) =>
              /\ position' = position
              /\ render(View').panic = render(View).panic
              /\ render(View').rows = render(View).rows]_vars

\* a view scrolled back from the tail that holds lines pushed since
C8_Witness ==
    /\ v_pc = "run"
    /\ h >= 1
    /\ Len(history) = 3
    /\ position = <<0, 1>>
    /\ history[1] # <<>>
    /\ ~render(View).panic

\* C9: render() is idempotent and read-only on the visible state: it changes
\* neither the history nor the scroll position (nor the size or the options),
\* and a second render() right after it returns the same rows.
C9_RenderIdempotent ==
    [][Render =>
          /\ history' = history
          /\ position' = position
          /\ h' = h
          /\ fmt' = fmt
          /\ v_pc' = "run" =>
                /\ ~render(View').panic
                /\ render(View').rows = render(View).rows]_vars

\* a render() has filled the cache for two lines under the current options
C9_Witness ==
    /\ v_pc = "run"
    /\ h >= 2
    /\ Len(history) >= 2
    /\ {Len(history) - 1, Len(history) - 2} \subseteq DOMAIN cache
    /\ \A k \in {Len(history) - 1, Len(history) - 2} : cache[k][1].for_opts = fmt
    /\ history[Len(history)] # history[Len(history) - 1]

\* C10: history is append-only.  Every step of push, resize and render either
\* leaves the history as it is or is a push that appends exactly one line, the
\* raw line with every '\n' and '\r' removed and its other chars kept in
\* order; so no stored line is ever removed, reordered or changed.
C10_HistoryAppendOnly ==
    [][\/ history' = history
       \/ \E raw \in PushLines :
              Push(raw) /\ history' = Append(history, WithoutNewlines(raw))]_vars

\* a line pushed with '\r' and '\n' in it is stored without them, below and
\* above other lines
C10_Witness ==
    /\ Len(history) = 3
    /\ history[2] = <<"a", "b", " ", "c", "d", " ", "e", "f", "g">>
    /\ history[1] = <<>>
    /\ DOMAIN cache # {}

----------------------------------------------------------------------------
(* DamageBuffer *)

MaxText == 2       \* longest text given to write_string()
MaxCoord == 2      \* largest row and column given to write_string()

\* widths and heights given to new() and resize()
GridWidths == {0, 1, 2}
GridHeights == {1, 2}

\* chars of the texts given to write_string()
WriteChars == {"a", " "}
\* origin columns given to write_string(): small ones, and the largest usize
WriteColumns == 0..MaxCoord \cup {UsizeModulus - 1}

WriteTexts == UNION {[1..m -> WriteChars] : m \in 0..MaxText}

Point(x, y) == [y |-> y, x |-> x]

\* a comparison that takes the fields in the order x, y
PointFieldsXY(p) == <<p.x, p.y>>

\* the fields of Point in their order of declaration
PointFields(p) == <<p.y, p.x>>

\* #[derive(PartialOrd, Ord)]: lexicographic on the fields as declared
PointLess(p, q) ==
    \E k \in 1..2 :
        /\ PointFields(p)[k] < PointFields(q)[k]
        /\ \A j \in 1..(k - 1) : PointFields(p)[j] = PointFields(q)[j]

\* iteration over a BTreeSet<Point>: ascending in the order of Point
InOrder(S) ==
    [k \in 1..Cardinality(S) |->
        CHOOSE p \in S : Cardinality({q \in S : PointLess(q, p)}) = k - 1]

\* the collection order of the test point_order
PointOrderTest ==
    InOrder({Point(3, 5), Point(4, 5), Point(5, 5), Point(7, 5), Point(2, 5),
             Point(1, 6)})

\* std::iter::repeat(" ".to_string()).take(n).collect()
BlankGrid(n) == [j \in 1..n |-> " "]

\* Vec::resize(n, " "): truncates, or extends with the fill value
VecResize(v, n) == [j \in 1..n |-> IF j <= Len(v) THEN v[j] ELSE " "]

\* what a call prints: cursor moves, the screen clear, and glyphs; a printed
\* glyph carries the cell whose buffer entry was read
Goto(x, y) == [op |-> "goto", x |-> x, y |-> y, s |-> ""]
ClearAll == [op |-> "clear", x |-> 0, y |-> 0, s |-> ""]
PrintCell(p, s) == [op |-> "print", x |-> p.x, y |-> p.y, s |-> s]

\* `as u16`
AsU16(n) == n % 65536

\* DamageBuffer::new(w, h)
InitDamage ==
    /\ overflow_checks \in BOOLEAN
    /\ d_pc = "run"
    /\ d_w \in GridWidths
    /\ d_h \in GridHeights
    /\ buffer = BlankGrid(d_w * d_h)
    /\ points_to_draw = {}
    /\ redraw_all = FALSE
    /\ clear_all = FALSE
    /\ d_op = "new"
    /\ d_out = <<>>
    /\ d_resized = FALSE
    /\ FormatIdle
    /\ ViewIdle
    /\ InputIdle

\* DamageBuffer::clear()
Clear ==
    /\ d_pc = "run"
    /\ buffer' = BlankGrid(d_w * d_h)
    /\ points_to_draw' = {}
    /\ redraw_all' = FALSE
    /\ clear_all' = TRUE
    /\ d_op' = "clear"
    /\ d_out' = <<>>
    /\ UNCHANGED <<overflow_checks, d_pc, d_w, d_h, d_resized, fvars, vvars, ivars>>

\* a resize that schedules no repaint
ResizeWithoutRepaint(new_w, new_h) ==
    /\ d_pc = "run"
    /\ d_w' = new_w
    /\ d_h' = new_h
    /\ buffer' = VecResize(buffer, new_w * new_h)
    /\ d_op' = "resize"
    /\ d_out' = <<>>
    /\ d_resized' = TRUE
    /\ UNCHANGED <<overflow_checks, d_pc, points_to_draw, redraw_all, clear_all,
                   fvars, vvars, ivars>>

\* DamageBuffer::resize(new_w, new_h)
ResizeBuffer(new_w, new_h) ==
    /\ d_pc = "run"
    /\ d_w' = new_w
    /\ d_h' = new_h
    /\ buffer' = VecResize(buffer, new_w * new_h)
    /\ redraw_all' = TRUE
    /\ d_op' = "resize"
    /\ d_out' = <<>>
    /\ d_resized' = TRUE
    /\ UNCHANGED <<overflow_checks, d_pc, points_to_draw, clear_all, fvars, vvars, ivars>>

\* a write that marks the cell whether or not its glyph changes
MarkAlways(buf, i, c) == TRUE

\* `c != self.buffer[i]`, i counted from 0
GlyphDiffers(buf, i, c) == c # buf[i + 1]

\* `x < self.w && loc.y < self.h`
InBounds(st, x, y) == x < st.w /\ y < st.h

\* the fields of the buffer, as the value a method works on
DamageBuffer ==
    [w |-> d_w, h |-> d_h, buffer |-> buffer, points |-> points_to_draw,
     redraw_all |-> redraw_all, clear_all |-> clear_all, panic |-> FALSE]

\* the body of the for loop of write_string for one char c at column x of
\* row y, on the grid state st; an index outside the buffer aborts the call
WriteChar(st, x, y, c) ==
    IF InBounds(st, x, y)
    THEN IF (y * st.w + x) + 1 \notin DOMAIN st.buffer
         THEN [st EXCEPT !.panic = TRUE]
         ELSE IF GlyphDiffers(st.buffer, y * st.w + x, c)
         THEN [st EXCEPT !.buffer[(y * st.w + x) + 1] = c,
                         !.points = @ \cup {Point(x, y)}]
         ELSE st
    ELSE st

\* usize addition: a + b panics under overflow checks when it passes the
\* largest usize, and wraps otherwise
UsizeAdd(a, b, checks) ==
    [panic |-> (a + b >= UsizeModulus) /\ checks, val |-> (a + b) % UsizeModulus]

\* `x += 1` at the end of the loop body
NextColumn(st, x) ==
    IF UsizeAdd(x, 1, overflow_checks).panic THEN [st EXCEPT !.panic = TRUE] ELSE st

\* the for loop of write_string from the k-th char of what on, x being the
\* column that char is addressed to
RECURSIVE WriteLoop(_, _, _, _, _)
WriteLoop(st, x, y, what, k) ==
    IF k > Len(what) \/ st.panic THEN st
    ELSE CHOOSE ret \in
             {WriteLoop(NextColumn(next, x), UsizeAdd(x, 1, overflow_checks).val, y,
                        what, k + 1) :
                 next \in {WriteChar(st, x, y, what[k])}} : TRUE

\* DamageBuffer::write_string(loc, what) on the buffer as it is now: the
\* fields it leaves, or a panic
write_string(loc, what) == WriteLoop(DamageBuffer, loc.x, loc.y, what, 1)

\* a call of write_string
WriteString(loc, what) ==
    /\ d_pc = "run"
    /\ \E st \in {write_string(loc, what)} :
           /\ d_pc' = IF st.panic THEN "aborted" ELSE d_pc
           /\ d_w' = st.w
           /\ d_h' = st.h
           /\ buffer' = st.buffer
           /\ points_to_draw' = st.points
           /\ redraw_all' = st.redraw_all
           /\ clear_all' = st.clear_all
    /\ d_op' = "write_string"
    /\ d_out' = <<>>
    /\ UNCHANGED <<overflow_checks, d_resized, fvars, vvars, ivars>>

\* for y in 0..self.h { for x in 0..self.w {..} }: every cell, row by row
AllCells == [j \in 1..(d_w * d_h) |-> Point((j - 1) % d_w, (j - 1) \div d_w)]

\* whether the loop body moves the cursor before it prints the cell p
NeedsGoto(p, last_point) == p.y # last_point.y \/ p.x - last_point.x # 1

\* the loop body of redraw for the k-th cell of cells: what has been printed
\* so far, the last point, and whether an index fell outside the buffer
RECURSIVE DrawLoop(_, _, _)
DrawLoop(cells, k, st) ==
    IF k > Len(cells) \/ st.panic THEN st
    ELSE CHOOSE ret \in
             {DrawLoop(cells, k + 1,
                  IF (p.y * d_w + p.x) + 1 \notin DOMAIN buffer
                  THEN [st EXCEPT !.panic = TRUE]
                  ELSE [st EXCEPT
                          !.out = @ \o (IF NeedsGoto(p, st.last_point)
                                        THEN <<Goto(AsU16(p.x + 1), AsU16(p.y + 1))>>
                                        ELSE <<>>)
                                   \o <<PrintCell(p, buffer[(p.y * d_w + p.x) + 1])>>,
                          !.last_point = p]) :
                 p \in {cells[k]}} : TRUE

\* what redraw prints before its loops
RedrawPrologue ==
    <<Goto(1, 1)>> \o (IF clear_all THEN <<ClearAll>> ELSE <<>>)

\* DamageBuffer::redraw(), the flush of the grid to the terminal
Redraw ==
    /\ d_pc = "run"
    /\ \E st \in {DrawLoop(IF redraw_all THEN AllCells ELSE InOrder(points_to_draw), 1,
                            [out |-> RedrawPrologue, last_point |-> Point(0, 0),
                             panic |-> FALSE])} :
           /\ d_out' = st.out
           /\ IF st.panic
              THEN d_pc' = "aborted" /\ UNCHANGED <<points_to_draw, redraw_all, clear_all>>
              ELSE /\ d_pc' = d_pc
                   /\ points_to_draw' = {}
                   /\ redraw_all' = FALSE
                   /\ clear_all' = FALSE
    /\ d_op' = "redraw"
    /\ d_resized' = FALSE
    /\ UNCHANGED <<overflow_checks, d_w, d_h, buffer, fvars, vvars, ivars>>

NextDamage ==
    \/ \E x \in WriteColumns, y \in 0..MaxCoord, what \in WriteTexts :
           WriteString(Point(x, y), what)
    \/ \E new_w \in GridWidths, new_h \in GridHeights : ResizeBuffer(new_w, new_h)
    \/ Clear
    \/ Redraw

SpecDamage == InitDamage /\ [][NextDamage]_vars

----------------------------------------------------------------------------
(* Properties of DamageBuffer *)

WriteLocs == {Point(x, y) : x \in WriteColumns, y \in 0..MaxCoord}

\* the cell that char k of a text written at loc belongs to
CellOf(loc, k) == Point(loc.x + (k - 1), loc.y)
\* the cell that the loop addresses for char k, in usize arithmetic
Addressed(loc, k) == Point((loc.x + (k - 1)) % UsizeModulus, loc.y)
InGrid(p, w, hgt) == p.x < w /\ p.y < hgt
\* the glyph a grid of width w holds at cell p
GlyphAt(buf, w, p) == buf[(p.y * w + p.x) + 1]

\* C11: write_string marks damage exactly where the grid changes: in every
\* state of the buffer and for every call that returns, an in-bounds cell
\* written with a glyph that differs from the one held is updated and becomes
\* dirty; written with the glyph it holds, its grid entry and its dirty mark
\* stay as they were, and a write of held glyphs only changes neither grid
\* nor dirty set
C11_DamageWhereGridChanges ==
    d_pc = "run" =>
        \A loc \in WriteLocs, what \in WriteTexts :
            \E st \in {write_string(loc, what)} :
                \/ st.panic
                \/ /\ \A k \in 1..Len(what) :
                          InGrid(Addressed(loc, k), d_w, d_h) =>
                              /\ GlyphAt(st.buffer, d_w, Addressed(loc, k)) = what[k]
                              /\ IF what[k] # GlyphAt(buffer, d_w, Addressed(loc, k))
                                 THEN Addressed(loc, k) \in st.points
                                 ELSE Addressed(loc, k) \in st.points
                                        <=> Addressed(loc, k) \in points_to_draw
                   /\ (\A k \in 1..Len(what) :
                           InGrid(Addressed(loc, k), d_w, d_h) =>
                               what[k] = GlyphAt(buffer, d_w, Addressed(loc, k)))
                          => st.buffer = buffer /\ st.points = points_to_draw

\* a changed cell is dirty, and a cell that holds a written glyph is clean
C11_Witness ==
    /\ d_pc = "run"
    /\ d_out = <<>>
    /\ \E p \in points_to_draw : InGrid(p, d_w, d_h) /\ GlyphAt(buffer, d_w, p) = "a"
    /\ \E x \in 0..(d_w - 1), y \in 0..(d_h - 1) :
           GlyphAt(buffer, d_w, Point(x, y)) = "a" /\ Point(x, y) \notin points_to_draw

\* the cells of a grid of width w and height hgt
GridCells(w, hgt) == {Point(x, y) : x \in 0..(w - 1), y \in 0..(hgt - 1)}

\* C12: write_string clips instead of failing: in every state of the buffer
\* and for every call, no error is raised, char k lands in cell (origin row,
\* origin column + k) when that cell is inside the grid and nowhere when it
\* is not, and every cell not addressed, every other dirty mark, the size
\* and both flags are left as they were
C12_WriteClips ==
    d_pc = "run" =>
        \A loc \in WriteLocs, what \in WriteTexts :
            \E st \in {write_string(loc, what)} :
                /\ ~st.panic
                /\ Len(st.buffer) = Len(buffer)
                /\ \A p \in GridCells(d_w, d_h) :
                       IF \E k \in 1..Len(what) : CellOf(loc, k) = p
                       THEN \E k \in 1..Len(what) :
                               /\ CellOf(loc, k) = p
                               /\ GlyphAt(st.buffer, d_w, p) = what[k]
                       ELSE /\ GlyphAt(st.buffer, d_w, p) = GlyphAt(buffer, d_w, p)
                            /\ p \in st.points <=> p \in points_to_draw
                /\ \A p \in (st.points \cup points_to_draw) \ GridCells(d_w, d_h) :
                       p \in st.points /\ p \in points_to_draw
                /\ st.w = d_w /\ st.h = d_h
                /\ st.redraw_all = redraw_all /\ st.clear_all = clear_all

\* C13: after flush the dirty set is empty and both flags are reset, and a
\* flush that follows a flush with no call in between prints nothing: no
\* glyph, no cursor move, no screen clear
C13_FlushLeavesNothingToDraw ==
    [][(Redraw /\ d_pc' = "run") =>
          /\ points_to_draw' = {} /\ ~redraw_all' /\ ~clear_all'
          /\ d_op = "redraw" => d_out' = <<>>]_vars

\* out prints the glyph of every cell of the grid buf of width w and height hgt
FullRepaint(out, w, hgt, buf) ==
    \A p \in GridCells(w, hgt) :
        \E j \in 1..Len(out) : out[j] = PrintCell(p, GlyphAt(buf, w, p))

\* C14: resize forces a full repaint: a flush that returns, and is the first
\* since a resize, prints the glyph of every one of the w*h cells, whatever
\* the dirty set held and whatever write_string and clear calls came between
C14_ResizeForcesFullRepaint ==
    [][(Redraw /\ d_resized /\ d_pc' = "run")
          => FullRepaint(d_out', d_w, d_h, buffer)]_vars

\* C15: resize(w, h) reallocates the grid: afterwards the grid has exactly
\* w*h cells, every cell is a space whatever was written before, and
\* redraw_all is set
C15_ResizeReallocatesBlank ==
    [][\A new_w \in GridWidths, new_h \in GridHeights :
          ResizeBuffer(new_w, new_h) =>
              /\ Len(buffer') = new_w * new_h
              /\ \A j \in 1..Len(buffer') : buffer'[j] = " "
              /\ redraw_all']_vars

\* C16: clear() leaves every grid cell blank, discards the pending dirty set,
\* and sets both redraw_all and clear_all
C16_ClearBlanksAndSetsBothFlags ==
    [][Clear =>
          /\ Len(buffer') = d_w * d_h
          /\ \A j \in 1..Len(buffer') : buffer'[j] = " "
          /\ points_to_draw' = {}
          /\ redraw_all' /\ clear_all']_vars

\* row-major: the smaller row first, and in one row the smaller column first
RowMajorBefore(p, q) == p.y < q.y \/ (p.y = q.y /\ p.x < q.x)

\* the positions in out of the instructions that print a glyph
PrintsOf(out) == {j \in 1..Len(out) : out[j].op = "print"}

\* C17: dirty cells are ordered and visited row-major whatever order they
\* were inserted in: a flush of the dirty set prints every dirty cell once,
\* a cell of a smaller row before any cell of a larger row and, within a row,
\* the smaller column first; the points of the test point_order collect in
\* the order the test asserts
C17_DirtyCellsRowMajor ==
    [][/\ PointOrderTest = <<Point(2, 5), Point(3, 5), Point(4, 5), Point(5, 5),
                             Point(7, 5), Point(1, 6)>>
       /\ (Redraw /\ ~redraw_all /\ d_pc' = "run") =>
              /\ {Point(d_out'[j].x, d_out'[j].y) : j \in PrintsOf(d_out')}
                     = points_to_draw
              /\ Cardinality(PrintsOf(d_out')) = Cardinality(points_to_draw)
              /\ \A i, j \in PrintsOf(d_out') :
                     i < j => RowMajorBefore(Point(d_out'[i].x, d_out'[i].y),
                                             Point(d_out'[j].x, d_out'[j].y))]_vars

\* a flush of two dirty cells has printed (1, 0) and then (0, 1), and was no
\* full repaint
C17_Witness ==
    /\ d_op = "redraw"
    /\ d_pc = "run"
    /\ \E i, j \in PrintsOf(d_out) :
           /\ i < j
           /\ Point(d_out[i].x, d_out[i].y) = Point(1, 0)
           /\ Point(d_out[j].x, d_out[j].y) = Point(0, 1)
    /\ \A j \in PrintsOf(d_out) : Point(d_out[j].x, d_out[j].y) # Point(0, 0)

----------------------------------------------------------------------------
(* InputLine *)

MaxInput == 4      \* longest buffer of the line editor, typed or set
MaxMove == 2       \* largest small cursor offset, either way

InputChars == {"a", "b"}
InputStrings == UNION {[1..m -> InputChars] : m \in 0..MaxInput}

\* the ends of isize, on the scale of UsizeModulus
IsizeMin == -(UsizeModulus \div 2)
IsizeMax == (UsizeModulus \div 2) - 1

\* offsets given to move_cursor(): small ones, and the two ends of isize
MoveOffsets == (-MaxMove)..MaxMove \cup {IsizeMin, IsizeMax}

\* InputLine::new(width, height)
InitInput ==
    /\ overflow_checks \in BOOLEAN
    /\ i_pc = "run"
    /\ i_buffer = <<>>
    /\ cursor = 0
    /\ FormatIdle
    /\ ViewIdle
    /\ DamageIdle

\* Vec::insert(index, what), index counted from 0
VecInsert(v, index, what) ==
    SubSeq(v, 1, index) \o <<what>> \o SubSeq(v, index + 1, Len(v))

\* InputLine::insert_char(what)
InsertChar(what) ==
    /\ i_pc = "run"
    /\ Len(i_buffer) < MaxInput
    /\ IF cursor >= Len(i_buffer)
       THEN /\ i_buffer' = Append(i_buffer, what)
            /\ cursor' = Len(i_buffer')
       ELSE /\ i_buffer' = VecInsert(i_buffer, cursor, what)
            /\ cursor' = cursor + 1
    /\ UNCHANGED <<overflow_checks, i_pc, fvars, vvars, dvars>>

\* InputLine::set_string(what)
SetString(what) ==
    /\ i_pc = "run"
    /\ i_buffer' = what
    /\ UNCHANGED <<overflow_checks, i_pc, cursor, fvars, vvars, dvars>>

\* isize::abs: the magnitude; at isize::MIN it panics under overflow checks
\* and returns isize::MIN otherwise
IsizeAbs(n, checks) ==
    [panic |-> n = IsizeMin /\ checks,
     val   |-> IF n = IsizeMin THEN IsizeMin ELSE IF n < 0 THEN -n ELSE n]

\* `as usize` of an isize
AsUsize(n) == n % UsizeModulus

\* the cursor after a move of backwards chars to the left
MoveLeft(cur, backwards) == IF backwards > cur THEN 0 ELSE cur - backwards

\* InputLine::move_cursor(offset)
MoveCursor(offset) ==
    /\ i_pc = "run"
    /\ IF offset < 0
       THEN IF IsizeAbs(offset, overflow_checks).panic
            THEN i_pc' = "aborted" /\ UNCHANGED cursor
            ELSE /\ cursor' = MoveLeft(cursor,
                                       AsUsize(IsizeAbs(offset, overflow_checks).val))
                 /\ i_pc' = i_pc
       ELSE IF UsizeAdd(cursor, AsUsize(offset), overflow_checks).panic
            THEN i_pc' = "aborted" /\ UNCHANGED cursor
            ELSE /\ \E moved \in {UsizeAdd(cursor, AsUsize(offset), overflow_checks).val} :
                        cursor' = IF moved > Len(i_buffer) THEN Len(i_buffer) ELSE moved
                 /\ i_pc' = i_pc
    /\ UNCHANGED <<overflow_checks, i_buffer, fvars, vvars, dvars>>

NextInput ==
    \/ \E what \in InputChars : InsertChar(what)
    \/ \E what \in InputStrings : SetString(what)
    \/ \E offset \in MoveOffsets : MoveCursor(offset)

SpecInput == InitInput /\ [][NextInput]_vars

----------------------------------------------------------------------------
(* Properties of InputLine *)

\* C18: the cursor never goes out of bounds: in any state reached by
\* insert_char, set_string and move_cursor, after move_cursor(offset) returns
\* the cursor satisfies 0 <= cursor <= buffer length
C18_CursorInBounds ==
    [][\A offset \in MoveOffsets :
          (MoveCursor(offset) /\ i_pc' = "run")
              => 0 <= cursor' /\ cursor' <= Len(i_buffer')]_vars

----------------------------------------------------------------------------
(* Properties of WrappedView: the cache and the rows of render() *)

\* the walk of a render() that keeps no cache: every visited line is wrapped
\* afresh under the options in force
RECURSIVE FreshWalk(_, _, _)
FreshWalk(v, i, rows) ==
    IF Len(rows) >= v.h \/ i < 0 THEN [panic |-> FALSE, rows |-> rows]
    ELSE IF i >= Len(v.history) THEN [panic |-> TRUE, rows |-> rows]
    ELSE CHOOSE ret \in
             {IF fresh.panic THEN [panic |-> TRUE, rows |-> rows]
              ELSE FreshWalk(v, i - 1, rows \o Reverse(Texts_(fresh.lines))) :
                 fresh \in {format(v.history[i + 1], v.fmt)}} : TRUE

CacheFreeRender(v) ==
    IF Len(v.history) = 0 THEN [panic |-> FALSE, rows |-> [j \in 1..v.h |-> Spaces(v.fmt.w)]]
    ELSE CHOOSE ret \in
             {[panic |-> walk.panic,
               rows |-> [j \in 1..v.h |->
                           IF v.h + 1 - j <= Len(walk.rows)
                           THEN walk.rows[v.h + 1 - j] ELSE Spaces(v.fmt.w)]] :
                 walk \in {FreshWalk(v, v.position[1], <<>>)}} : TRUE

\* render() on the view v agrees with the cache-free render, and a wrap of a
\* cached line returns lines wrapped under the options in force
CacheIsTransparent(v) ==
    /\ render(v).panic = CacheFreeRender(v).panic
    /\ ~render(v).panic => render(v).rows = CacheFreeRender(v).rows
    /\ \A k \in DOMAIN v.cache :
           \E r \in {Wrap(v, v.cache, k)} :
               (~r.none /\ ~r.panic) =>
                   /\ \A j \in 1..Len(r.lines) : r.lines[j].for_opts = v.fmt
                   /\ r.lines = format(v.history[k + 1], v.fmt).lines

\* C19: the wrap cache never changes what is displayed: before and after
\* every step of push, resize and render, render() returns exactly what the
\* cache-free render returns; an entry wrapped under other options is never
\* returned, although resize leaves the cache as it is
C19_CacheNeverChangesDisplay ==
    [][/\ v_pc = "run" => CacheIsTransparent(View)
       /\ v_pc' = "run" => CacheIsTransparent(View')
       /\ \A new_w \in ViewWidths, new_h \in ViewHeights :
              Resize(new_w, new_h) => cache' = cache]_vars

\* after a resize, the line render() starts from is cached under the old
\* options
C19_Witness ==
    /\ v_pc = "run"
    /\ h >= 1
    /\ position[1] \in DOMAIN cache
    /\ cache[position[1]][1].for_opts # fmt
    /\ ~render(View).panic

\* wrap(history[0]) ++ ... ++ wrap(history[k]) under the options of the view v
RECURSIVE WrappedUpTo(_, _)
WrappedUpTo(v, k) ==
    IF k < 0 THEN <<>>
    ELSE WrappedUpTo(v, k - 1) \o Texts_(format(v.history[k + 1], v.fmt).lines)

\* the last hgt rows of all, with all-space rows of length w above them when
\* all has fewer than hgt rows
LastRowsPaddedAbove(all, hgt, w) ==
    [j \in 1..hgt |->
        IF Len(all) - hgt + j >= 1 THEN all[Len(all) - hgt + j] ELSE Spaces(w)]

\* C20: a render() that returns gives, top to bottom, the last `height` rows
\* of wrap(history[0]) ++ ... ++ wrap(history[anchor]) under the options in
\* force, each line's fragments in their own order; when there are fewer,
\* the missing rows are all-space rows of length `width` above the content
C20_RenderIsTailOfWrappedHistory ==
    (v_pc = "run" /\ ~render(View).panic) =>
        render(View).rows =
            LastRowsPaddedAbove(
                IF Len(history) = 0 THEN <<>>
                ELSE WrappedUpTo(View, position[1]),
                h, fmt.w)

\* a view of two rows shows the last fragment of one line above the only
\* fragment of the next
C20_Witness ==
    /\ v_pc = "run"
    /\ h = 2
    /\ Len(history) >= 2
    /\ position[1] = Len(history) - 1
    /\ ~render(View).panic
    /\ Len(format(history[Len(history)], fmt).lines) = 1
    /\ Len(format(history[Len(history) - 1], fmt).lines) >= 2

----------------------------------------------------------------------------
(* Totality of format() *)

\* C21: for every input line and every FormatOptions with width >= 1, also
\* with a width below the indent magnitude, wrap is total: no run of format
\* aborts, neither on the subtraction that computes a target width nor on a
\* slice, and every run that has gone through all chars has returned or is
\* about to
C21_WrapIsTotal ==
    f_opts.w >= 1 =>
        /\ f_pc # "panicked"
        /\ f_pc \in {"call", "loop", "done", "idle"}
        /\ f_pc = "loop" => f_k <= Len(f_text) /\ ~f_loc.panic

----------------------------------------------------------------------------
(* Validity of the scroll anchor *)

\* C22: in every state reached by new, push, resize and render with a
\* non-empty history, the anchor is a valid index (anchor < history length),
\* so no wrap lookup of render(), which visits the indices 0..anchor, is made
\* past the end of the history: wrap never returns None to it
C22_AnchorIsValid ==
    (v_pc \in {"run", "aborted"} /\ Len(history) > 0) =>
        /\ position[1] < Len(history)
        /\ \A i \in 0..position[1] : ~Wrap(View, cache, i).none

\* three lines pushed, the anchor on the last one, and the line rendered
C22_Witness ==
    /\ v_pc = "run"
    /\ Len(history) = MaxHist
    /\ position[1] = MaxHist - 1
    /\ position[1] \in DOMAIN cache

----------------------------------------------------------------------------
(* The instructions of a flush *)

\* the cell printed by the j-th instruction of out
CellPrinted(out, j) == Point(out[j].x, out[j].y)

\* q is the cell right after p: same row, next column
Contiguous(p, q) == q.y = p.y /\ q.x = p.x + 1

\* the instruction before the j-th positions the cursor on the cell it prints
PositionedBefore(out, j) ==
    j > 1 /\ out[j - 1] = Goto(out[j].x + 1, out[j].y + 1)

\* the j-th instruction prints the cell right after the cell printed just
\* before it in the same flush
FollowsPrevious(out, j) ==
    \E i \in PrintsOf(out) :
        /\ i < j
        /\ \A k \in PrintsOf(out) : k < j => k <= i
        /\ Contiguous(CellPrinted(out, i), CellPrinted(out, j))

\* C23: in a flush, on the walk of all cells and on the walk of the dirty
\* set alike, a cursor-positioning instruction for a visited cell is emitted
\* before its glyph exactly when the cell is not contiguous (same row, next
\* column) with the cell whose glyph was emitted just before it in the same
\* flush; then the glyph the grid holds for the cell is emitted
C23_GotoExactlyAtDiscontinuities ==
    (d_op = "redraw" /\ d_pc = "run") =>
        \A j \in PrintsOf(d_out) :
            /\ PositionedBefore(d_out, j) <=> ~FollowsPrevious(d_out, j)
            /\ d_out[j].s = GlyphAt(buffer, d_w, CellPrinted(d_out, j))

\* the cell under the cursor of a terminal that has received the first j
\* instructions of out: a cursor move puts it on the named cell (counted
\* from 1), a glyph advances it by one column, a screen clear leaves it
RECURSIVE CursorAfter(_, _)
CursorAfter(out, j) ==
    IF j = 0 THEN Point(0, 0)
    ELSE IF out[j].op = "goto" THEN Point(out[j].x - 1, out[j].y - 1)
    ELSE IF out[j].op = "print"
         THEN Point(CursorAfter(out, j - 1).x + 1, CursorAfter(out, j - 1).y)
    ELSE CursorAfter(out, j - 1)

\* C24: flush paints the grid faithfully: on a terminal whose cursor advances
\* one column per glyph, every glyph of a flush is emitted with the cursor on
\* the cell it belongs to and is the glyph the grid holds for that cell, also
\* when the first cell to draw is row 0, column 1
C24_FlushPaintsFaithfully ==
    (d_op = "redraw" /\ d_pc = "run") =>
        \A j \in PrintsOf(d_out) :
            /\ CursorAfter(d_out, j - 1) = CellPrinted(d_out, j)
            /\ d_out[j].s = GlyphAt(buffer, d_w, CellPrinted(d_out, j))

----------------------------------------------------------------------------
(* Content kept by format() *)

\* the texts of lines, one after the other
RECURSIVE Flatten(_)
Flatten(lines) ==
    IF lines = <<>> THEN <<>> ELSE Head(lines).text \o Flatten(Tail(lines))

\* the chars of s that are no whitespace, in order
NonWhitespace(s) == SelectSeq(s, LAMBDA c : ~IsWhitespace(c))

\* C25: wrap neither loses nor duplicates content: for a width greater than
\* the indent magnitude, the non-whitespace chars of the returned lines,
\* read in order, are exactly the non-whitespace chars of the input line in
\* order, after whitespace breaks and after mid-token breaks alike
C25_WrapKeepsContent ==
    (f_pc = "done" /\ f_opts.w > IndentMagnitude(f_opts)) =>
        NonWhitespace(Flatten(f_ret)) = NonWhitespace(f_text)

----------------------------------------------------------------------------
(* The grid and the dirty set stay in step *)

\* C26: flush never reads outside the grid: in every state reached by new,
\* write_string, resize, clear and flush the grid holds exactly w*h cells,
\* whenever redraw_all is false every dirty cell has column < w and row < h,
\* also after a resize to a smaller size while cells beyond the new bounds
\* were dirty, and no flush aborts on an index outside the buffer
C26_FlushStaysInGrid ==
    d_pc \in {"run", "aborted"} =>
        /\ Len(buffer) = d_w * d_h
        /\ ~redraw_all => \A p \in points_to_draw : InGrid(p, d_w, d_h)
        /\ d_op = "redraw" => d_pc = "run"

\* a resize to a smaller grid has left a dirty cell beyond the new bounds
C26_Witness ==
    /\ d_pc = "run"
    /\ d_op = "resize"
    /\ \E p \in points_to_draw : ~InGrid(p, d_w, d_h)


====
